---- MODULE Spec2Model ----
(***************************************************************************)
(* A model of dao-conflict-scanner: the ERF archive reader (src/erf.rs)    *)
(* and the conflict scanner (src/scanner.rs).                              *)
(*                                                                         *)
(* Strings are sequences of Unicode code points, byte buffers sequences of *)
(* naturals below 256, a path is the sequence of its components (each a    *)
(* string).  A HashMap is a function whose DOMAIN is its key set.          *)
(***************************************************************************)
EXTENDS Integers, Sequences, FiniteSets, TLC

VARIABLES
    \* ---- the archive reader (ErfFile::from_reader / ErfFile::parse) ----
    erf_bytes,      \* the container file handed to the reader
    erf_pc,         \* position in from_reader/parse
    erf_st,         \* the locals of from_reader/parse
    erf_result,     \* what from_reader returned
    calls,          \* history: the get_resource calls made on the archive, with what each returned
    \* ---- the scanner (scan_for_conflicts) ----
    root_state,     \* what bioware_dir is on disk: "dir" or "missing"
    tree,           \* the regular files below the root: [path, content]
    pending,        \* the files the directory walk has not yielded yet
    root_pending,   \* the walk has not yielded its first item (the root) yet
    conflicts,      \* the accumulator of scan_for_conflicts
    warnings,       \* the archives reported on stderr
    walked,         \* history: the paths of the files in the order the walk yielded them
    scan_pc,        \* "walk" or "done"
    result,         \* what scan_for_conflicts returned
    \* ---- the application (app.rs) ----
    app,            \* the fields of App
    workers,        \* the scan threads that are running, by the number of their scan:
                    \* the place each has reached and the result it holds
    channels,       \* per scan, the values sent on its channel and not received yet
    started,        \* history: how many scans start_scan has started
    installed       \* history: the number of the scan whose map App.conflicts was last set from

erf_vars  == <<erf_bytes, erf_pc, erf_st, erf_result, calls>>
scan_vars == <<root_state, tree, pending, root_pending, conflicts, warnings,
               walked, scan_pc, result>>
app_vars  == <<app, workers, channels, started, installed>>
vars == <<erf_vars, scan_vars, app_vars>>

(***************************************************************************)
(* Bounds of the model.                                                    *)
(***************************************************************************)
\* the most TOC records a generated container holds
MaxToc == 2
\* the most regular files a generated directory tree holds
MaxFiles == 3
\* the most get_resource calls made on one parsed archive
MaxCalls == 2
\* the most scans the user starts in one run of the application
MaxScans == 2

(***************************************************************************)
(* Generic helpers.                                                        *)
(***************************************************************************)
EmptyMap == [k \in {} |-> <<>>]

MapInsert(m, k, v) == [x \in (DOMAIN m) \cup {k} |-> IF x = k THEN v ELSE m[x]]

Range(s) == {s[i] : i \in 1..Len(s)}

IsPrefix(p, s) == Len(p) <= Len(s) /\ SubSeq(s, 1, Len(p)) = p

RECURSIVE SeqsUpTo(_, _)
\* every sequence over S of length at most n
SeqsUpTo(S, n) ==
    IF n = 0 THEN {<<>>}
    ELSE LET shorter == SeqsUpTo(S, n - 1)
         IN  shorter \cup {Append(s, x) : s \in shorter, x \in S}

(***************************************************************************)
(* String literals of the source, as code points.                          *)
(***************************************************************************)
\* "ERF "
STR_ERF == <<69, 82, 70, 32>>
\* "V2.0"
STR_V20 == <<86, 50, 46, 48>>
\* "V2.2"
STR_V22 == <<86, 50, 46, 50>>
\* "erf"
STR_erf == <<101, 114, 102>>
\* "manifest.xml"
STR_manifest_xml == <<109, 97, 110, 105, 102, 101, 115, 116, 46, 120, 109, 108>>
\* "credits.txt"
STR_credits_txt == <<99, 114, 101, 100, 105, 116, 115, 46, 116, 120, 116>>
\* "readme.txt"
STR_readme_txt == <<114, 101, 97, 100, 109, 101, 46, 116, 120, 116>>

(***************************************************************************)
(* Case conversion.                                                        *)
(***************************************************************************)
\* u8::to_ascii_lowercase on each code point: only A..Z change
to_ascii_lowercase(s) ==
    [i \in 1..Len(s) |-> IF s[i] >= 65 /\ s[i] <= 90 THEN s[i] + 32 ELSE s[i]]

\* char::to_lowercase for the code points the model draws from: ASCII,
\* Latin-1, U+0130 (which lower-cases to two code points), the Kelvin sign
\* U+212A (which lower-cases to ASCII k); every other code point of the
\* model's alphabet has no lower-case mapping.
LowerChar(c) ==
    IF c >= 65 /\ c <= 90 THEN <<c + 32>>
    ELSE IF c >= 192 /\ c <= 222 /\ c # 215 THEN <<c + 32>>
    ELSE IF c = 304 THEN <<105, 775>>
    ELSE IF c = 8490 THEN <<107>>
    ELSE <<c>>

RECURSIVE to_lowercase(_)
to_lowercase(s) ==
    IF s = <<>> THEN <<>> ELSE LowerChar(Head(s)) \o to_lowercase(Tail(s))

(***************************************************************************)
(* Byte codec (erf.rs, decode_utf16le and read_u32).                       *)
(***************************************************************************)
\* chunks_exact(2) + u16::from_le_bytes
u16_values(bytes) ==
    [i \in 1..(Len(bytes) \div 2) |-> bytes[2 * i - 1] + 256 * bytes[2 * i]]

RECURSIVE from_utf16_lossy(_)
\* String::from_utf16_lossy: a surrogate pair is one code point, an unpaired
\* surrogate becomes U+FFFD
from_utf16_lossy(u) ==
    IF u = <<>> THEN <<>>
    ELSE LET h == Head(u)
         IN  IF h < 55296 \/ h > 57343
                THEN <<h>> \o from_utf16_lossy(Tail(u))
             ELSE IF h <= 56319 /\ Len(u) >= 2 /\ u[2] >= 56320 /\ u[2] <= 57343
                THEN <<65536 + (h - 55296) * 1024 + (u[2] - 56320)>>
                     \o from_utf16_lossy(Tail(Tail(u)))
             ELSE <<65533>> \o from_utf16_lossy(Tail(u))

RECURSIVE trim_end_nul(_)
\* str::trim_end_matches('\0')
trim_end_nul(s) ==
    IF s # <<>> /\ s[Len(s)] = 0 THEN trim_end_nul(SubSeq(s, 1, Len(s) - 1))
    ELSE s

decode_utf16le(bytes) ==
    IF Len(bytes) % 2 # 0
        THEN [ok |-> FALSE, err |-> [kind |-> "InvalidStringEncoding"]]
    ELSE [ok |-> TRUE, val |-> trim_end_nul(from_utf16_lossy(u16_values(bytes)))]

read_u32(bytes) ==
    bytes[1] + 256 * bytes[2] + 65536 * bytes[3] + 16777216 * bytes[4]

\* Read::read_exact on a reader at position pos: all n bytes or an I/O error;
\* a read of no bytes succeeds wherever the reader stands
read_exact(bytes, pos, n) ==
    IF n = 0 THEN [ok |-> TRUE, val |-> <<>>, pos |-> pos]
    ELSE IF pos + n <= Len(bytes)
        THEN [ok |-> TRUE, val |-> SubSeq(bytes, pos + 1, pos + n), pos |-> pos + n]
    ELSE [ok |-> FALSE, err |-> [kind |-> "Io"]]

(***************************************************************************)
(* The archive reader (erf.rs).                                            *)
(***************************************************************************)
\* the two fixed 16-byte records at the head of a container
HeaderSize == 16
\* the width of the name field of a TOC record
NameSize == 64
\* the width of a TOC record, per version
EntrySizeV20 == 72
EntrySizeV22 == 76

read_header(bytes) ==
    LET r == read_exact(bytes, 0, HeaderSize)
    IN  IF ~r.ok THEN r
        ELSE LET magic   == decode_utf16le(SubSeq(r.val, 1, 8))
                 version == decode_utf16le(SubSeq(r.val, 9, 16))
             IN  IF ~magic.ok THEN magic
                 ELSE IF ~version.ok THEN version
                 ELSE [ok |-> TRUE, magic |-> magic.val, version |-> version.val,
                       pos |-> r.pos]

\* the match of from_reader on (magic, version_str)
match_header_swapped(magic, version_str) ==
    IF version_str \notin {STR_V20, STR_V22}
        THEN [ok |-> FALSE, err |-> [kind |-> "UnsupportedVersion", found |-> version_str]]
    ELSE IF magic # STR_ERF
        THEN [ok |-> FALSE,
              err |-> [kind |-> "InvalidHeader", expected |-> STR_ERF, found |-> magic]]
    ELSE [ok |-> TRUE, version |-> IF version_str = STR_V20 THEN "V20" ELSE "V22"]

match_header(magic, version_str) ==
    IF magic = STR_ERF /\ version_str = STR_V20 THEN [ok |-> TRUE, version |-> "V20"]
    ELSE IF magic = STR_ERF /\ version_str = STR_V22 THEN [ok |-> TRUE, version |-> "V22"]
    ELSE IF magic = STR_ERF
        THEN [ok |-> FALSE, err |-> [kind |-> "UnsupportedVersion", found |-> version_str]]
    ELSE [ok |-> FALSE,
          err |-> [kind |-> "InvalidHeader", expected |-> STR_ERF, found |-> magic]]

\* the locals of from_reader/parse before anything is read
InitLocals ==
    [pos |-> 0, version |-> "none", file_count |-> 0, year |-> 0, day |-> 0,
     module_id |-> 0, i |-> 0, toc |-> <<>>, by_name |-> EmptyMap,
     err |-> [kind |-> "none"]]

Fail(st, e) == [st EXCEPT !.err = e]

\* from_reader up to the call of parse: read_header, then the match
from_reader_header(bytes, st) ==
    LET h == read_header(bytes)
    IN  IF ~h.ok THEN Fail(st, h.err)
        ELSE LET m == match_header(h.magic, h.version)
             IN  IF ~m.ok THEN Fail(st, m.err)
                 ELSE [st EXCEPT !.pos = h.pos, !.version = m.version]

\* parse up to its loop: the second 16-byte record
parse_header(bytes, st) ==
    LET r == read_exact(bytes, st.pos, HeaderSize)
    IN  IF ~r.ok THEN Fail(st, r.err)
        ELSE [st EXCEPT !.pos = r.pos,
                        !.file_count = read_u32(SubSeq(r.val, 1, 4)),
                        !.year = read_u32(SubSeq(r.val, 5, 8)),
                        !.day = read_u32(SubSeq(r.val, 9, 12)),
                        !.module_id = IF st.version = "V22"
                                         THEN read_u32(SubSeq(r.val, 13, 16))
                                      ELSE 0]

\* by_name.insert(name.to_lowercase(), i), had it kept the first index
by_name_insert_first(by_name, name, i) ==
    IF to_lowercase(name) \in DOMAIN by_name THEN by_name
    ELSE MapInsert(by_name, to_lowercase(name), i)

by_name_insert(by_name, name, i) == MapInsert(by_name, to_lowercase(name), i)

\* one iteration of the loop of parse, had it not tested name.is_empty()
parse_entry_unchecked(bytes, st) ==
    LET entry_size == IF st.version = "V22" THEN EntrySizeV22 ELSE EntrySizeV20
        r == read_exact(bytes, st.pos, entry_size)
    IN  IF ~r.ok THEN Fail(st, r.err)
        ELSE LET name == decode_utf16le(SubSeq(r.val, 1, NameSize))
                 packed_length == read_u32(SubSeq(r.val, 69, 72))
             IN  [st EXCEPT
                    !.pos = r.pos,
                    !.toc = Append(st.toc,
                                   [name |-> name.val,
                                    offset |-> read_u32(SubSeq(r.val, 65, 68)),
                                    packed_length |-> packed_length,
                                    length |-> IF st.version = "V22"
                                                  THEN read_u32(SubSeq(r.val, 73, 76))
                                               ELSE packed_length]),
                    !.by_name = MapInsert(st.by_name, to_lowercase(name.val), st.i),
                    !.i = st.i + 1]

\* one iteration of the loop of parse, had it taken length from packed_length
\* for both versions
parse_entry_one_length(bytes, st) ==
    LET entry_size == IF st.version = "V22" THEN EntrySizeV22 ELSE EntrySizeV20
        r == read_exact(bytes, st.pos, entry_size)
    IN  IF ~r.ok THEN Fail(st, r.err)
        ELSE LET name == decode_utf16le(SubSeq(r.val, 1, NameSize))
                 packed_length == read_u32(SubSeq(r.val, 69, 72))
             IN  IF name.val = <<>>
                    THEN Fail(st, [kind |-> "InvalidResourceName", index |-> st.i])
                 ELSE [st EXCEPT
                         !.pos = r.pos,
                         !.toc = Append(st.toc,
                                        [name |-> name.val,
                                         offset |-> read_u32(SubSeq(r.val, 65, 68)),
                                         packed_length |-> packed_length,
                                         length |-> packed_length]),
                         !.by_name = MapInsert(st.by_name, to_lowercase(name.val), st.i),
                         !.i = st.i + 1]

\* one iteration of the loop of parse
parse_entry(bytes, st) ==
    LET entry_size == IF st.version = "V22" THEN EntrySizeV22 ELSE EntrySizeV20
        r == read_exact(bytes, st.pos, entry_size)
    IN  IF ~r.ok THEN Fail(st, r.err)
        ELSE LET name == decode_utf16le(SubSeq(r.val, 1, NameSize))
             IN  IF ~name.ok THEN Fail(st, name.err)
                 ELSE IF name.val = <<>>
                    THEN Fail(st, [kind |-> "InvalidResourceName", index |-> st.i])
                 ELSE LET offset == read_u32(SubSeq(r.val, 65, 68))
                          packed_length == read_u32(SubSeq(r.val, 69, 72))
                          length == IF st.version = "V22"
                                       THEN read_u32(SubSeq(r.val, 73, 76))
                                    ELSE packed_length
                      IN  [st EXCEPT
                             !.pos = r.pos,
                             !.toc = Append(st.toc,
                                            [name |-> name.val, offset |-> offset,
                                             packed_length |-> packed_length,
                                             length |-> length]),
                             !.by_name = by_name_insert(st.by_name, name.val, st.i),
                             !.i = st.i + 1]

\* the value from_reader returns, from the locals at its return
ErfReturnValue(st) ==
    IF st.err.kind # "none" THEN [tag |-> "Err", err |-> st.err]
    ELSE [tag |-> "Ok", version |-> st.version, year |-> st.year, day |-> st.day,
          module_id |-> st.module_id, toc |-> st.toc, by_name |-> st.by_name]

RECURSIVE parse_loop(_, _)
\* the loop of parse, run to its end or to its first error
parse_loop(bytes, st) ==
    IF st.err.kind # "none" \/ st.i >= st.file_count THEN st
    ELSE parse_loop(bytes, parse_entry(bytes, st))

\* the locals of from_reader/parse when from_reader returns
from_reader_locals(bytes) ==
    LET h == from_reader_header(bytes, InitLocals)
    IN  IF h.err.kind # "none" THEN h
        ELSE LET p == parse_header(bytes, h)
             IN  IF p.err.kind # "none" THEN p ELSE parse_loop(bytes, p)

from_reader(bytes) == ErfReturnValue(from_reader_locals(bytes))

\* the lookup of get_resource, had it looked the name up as it is
lookup_index_exact(by_name, name) ==
    IF name \notin DOMAIN by_name
        THEN [ok |-> FALSE, err |-> [kind |-> "InvalidResourceName", name |-> name]]
    ELSE [ok |-> TRUE, index |-> by_name[name]]

\* the lookup of get_resource: by_name.get(&name.to_lowercase())
lookup_index(by_name, name) ==
    LET key == to_lowercase(name)
    IN  IF key \notin DOMAIN by_name
            THEN [ok |-> FALSE, err |-> [kind |-> "InvalidResourceName", name |-> name]]
        ELSE [ok |-> TRUE, index |-> by_name[key]]

\* the read of get_resource: seek to entry.offset (a seek past the end of a
\* file succeeds), then read_exact into a buffer of entry.length bytes
read_resource(entry, bytes) == read_exact(bytes, entry.offset, entry.length)

\* ErfFile::get_resource on the archive erf and a reader over bytes; index is
\* the local of that name, kept beside the returned data
get_resource(erf, name, bytes) ==
    LET found == lookup_index(erf.by_name, name)
    IN  IF ~found.ok THEN [tag |-> "Err", err |-> found.err]
        ELSE LET entry == erf.toc[found.index + 1]
                 data == read_resource(entry, bytes)
             IN  IF ~data.ok THEN [tag |-> "Err", err |-> data.err]
                 ELSE [tag |-> "Ok", index |-> found.index, data |-> data.val]

(***************************************************************************)
(* Container files the reader is run on, built field by field after the    *)
(* binary layout the reader expects.                                       *)
(***************************************************************************)
RECURSIVE UnitsToBytes(_)
\* UTF-16 code units, little-endian
UnitsToBytes(u) ==
    IF u = <<>> THEN <<>>
    ELSE <<Head(u) % 256, Head(u) \div 256>> \o UnitsToBytes(Tail(u))

PadZero(bytes, n) == bytes \o [i \in 1..(n - Len(bytes)) |-> 0]

U32le(n) ==
    <<n % 256, (n \div 256) % 256, (n \div 65536) % 256, (n \div 16777216) % 256>>

\* one TOC record; wide: with the V2.2 length field
EncodeEntry(e, wide) ==
    PadZero(UnitsToBytes(e.units), NameSize) \o U32le(e.offset) \o U32le(e.packed_length)
    \o (IF wide THEN U32le(e.length) ELSE <<>>)

RECURSIVE EncodeToc(_, _)
EncodeToc(entries, wide) ==
    IF entries = <<>> THEN <<>>
    ELSE EncodeEntry(Head(entries), wide) \o EncodeToc(Tail(entries), wide)

MkErf(magic, version, file_count, year, day, module_id, entries) ==
    PadZero(UnitsToBytes(magic), 8) \o PadZero(UnitsToBytes(version), 8)
    \o U32le(file_count) \o U32le(year) \o U32le(day) \o U32le(module_id)
    \o EncodeToc(entries, version = STR_V22)

\* the j-th record of a container named by the code units of its names
EntryOf(names, j) ==
    [units |-> names[j], offset |-> 4096 + 16 * j, packed_length |-> 8 + j,
     length |-> 12 + j]

EntriesOf(names) == [j \in 1..Len(names) |-> EntryOf(names, j)]

\* magic fields: "ERF ", "XYZ ", "ERF" and a NUL, "erf "
MagicUnits == {STR_ERF, <<88, 89, 90, 32>>, <<69, 82, 70, 0>>, <<101, 114, 102, 32>>}
\* version fields: "V2.0", "V2.2", "V3.0", "V2." and a NUL
VersionUnits == {STR_V20, STR_V22, <<86, 51, 46, 48>>, <<86, 50, 46, 0>>}
\* name fields, in UTF-16 code units: "a", "A", "b", the empty name, U+00C9,
\* an unpaired low surrogate
NameUnits == {<<97>>, <<65>>, <<98>>, <<>>, <<201>>, <<56320>>}

ErfInputs ==
    \* every header, over one fixed body
    {MkErf(m, v, 1, 2009, 300, 7, EntriesOf(<<<<97>>>>)) :
        m \in MagicUnits, v \in VersionUnits}
    \* every TOC of at most MaxToc records, declared exactly or one record short
    \cup {MkErf(STR_ERF, v, Len(names) + extra, 2009, 300, 7, EntriesOf(names)) :
            v \in {STR_V20, STR_V22}, names \in SeqsUpTo(NameUnits, MaxToc),
            extra \in {0, 1}}
    \* files that end inside the first or the second 16-byte record
    \cup {SubSeq(MkErf(STR_ERF, STR_V20, 0, 2009, 300, 7, <<>>), 1, n) : n \in {10, 20}}

\* the resource bytes that follow the TOC of a container with a data area
ResourceData == <<11, 12, 13, 14, 15, 16>>

\* where a record places its resource, relative to the data area: inside it,
\* up to its last byte, past its end, and an empty resource beyond the end
Geometries ==
    <<[off |-> 1, len |-> 3], [off |-> 2, len |-> 4], [off |-> 4, len |-> 4],
      [off |-> 9, len |-> 0]>>

\* the j-th record of a container with a data area at offset base; a V2.2
\* record (wide) declares a packed length that differs from its length
DataEntryOf(names, j, base, shift, wide) ==
    LET g == Geometries[((j + shift) % Len(Geometries)) + 1]
    IN  [units |-> names[j], offset |-> base + g.off,
         packed_length |-> IF wide THEN g.len + 1 ELSE g.len, length |-> g.len]

MkErfWithData(version, names, shift) ==
    LET wide == version = STR_V22
        base == 2 * HeaderSize + Len(names) * (IF wide THEN EntrySizeV22 ELSE EntrySizeV20)
    IN  MkErf(STR_ERF, version, Len(names), 2009, 300, 7,
              [j \in 1..Len(names) |-> DataEntryOf(names, j, base, shift, wide)])
        \o ResourceData

\* containers with a data area: names "a", "A", U+00C9
ErfDataInputs ==
    {MkErfWithData(v, names, shift) :
        v \in {STR_V20, STR_V22},
        names \in SeqsUpTo({<<97>>, <<65>>, <<201>>}, MaxToc) \ {<<>>},
        shift \in 0..3}

\* the names get_resource is asked for: "a", "A", "b", U+00E9
QueryNames == {<<97>>, <<65>>, <<98>>, <<233>>}

(***************************************************************************)
(* ErfSpec: ErfFile::from_reader run on one container, one read at a time,  *)
(* then get_resource calls on the parsed archive with the same file as the  *)
(* reader.                                                                  *)
(***************************************************************************)
ScanIdle ==
    /\ root_state = "dir"
    /\ tree = {}
    /\ pending = {}
    /\ root_pending = FALSE
    /\ conflicts = EmptyMap
    /\ warnings = {}
    /\ walked = <<>>
    /\ scan_pc = "idle"
    /\ result = [tag |-> "None"]

\* App::new: nothing scanned yet, no scan running
AppNew ==
    [ignored |-> EmptyMap, conflicts |-> EmptyMap, status |-> [text |-> "Waiting for a scan..."],
     error |-> FALSE, pending_commands |-> <<>>, expanded_conflicts |-> {},
     scan_thread |-> 0, receiver |-> 0, has_scanned |-> FALSE]

AppIdle ==
    /\ app = AppNew
    /\ workers = EmptyMap
    /\ channels = EmptyMap
    /\ started = 0
    /\ installed = 0

ErfInit ==
    /\ erf_bytes \in ErfInputs \cup ErfDataInputs
    /\ erf_pc = "from_reader"
    /\ erf_st = InitLocals
    /\ erf_result = [tag |-> "None"]
    /\ calls = <<>>
    /\ ScanIdle
    /\ AppIdle

\* an error leaves from_reader with Err, otherwise the reader goes on at pc
ErfAdvance(st, pc) ==
    IF st.err.kind # "none"
        THEN /\ erf_pc' = "done"
             /\ erf_st' = st
             /\ erf_result' = ErfReturnValue(st)
    ELSE /\ erf_pc' = pc
         /\ erf_st' = st
         /\ erf_result' = erf_result

ErfReadHeader ==
    /\ erf_pc = "from_reader"
    /\ ErfAdvance(from_reader_header(erf_bytes, erf_st), "parse")
    /\ UNCHANGED <<erf_bytes, calls, scan_vars, app_vars>>

ErfParseHeader ==
    /\ erf_pc = "parse"
    /\ ErfAdvance(parse_header(erf_bytes, erf_st), "toc")
    /\ UNCHANGED <<erf_bytes, calls, scan_vars, app_vars>>

ErfParseEntry ==
    /\ erf_pc = "toc"
    /\ erf_st.i < erf_st.file_count
    /\ ErfAdvance(parse_entry(erf_bytes, erf_st), "toc")
    /\ UNCHANGED <<erf_bytes, calls, scan_vars, app_vars>>

ErfReturn ==
    /\ erf_pc = "toc"
    /\ erf_st.i >= erf_st.file_count
    /\ erf_pc' = "done"
    /\ erf_result' = ErfReturnValue(erf_st)
    /\ UNCHANGED <<erf_bytes, erf_st, calls, scan_vars, app_vars>>

ErfGetResource ==
    \E name \in QueryNames :
        /\ erf_pc = "done"
        /\ erf_result.tag = "Ok"
        /\ Len(calls) < MaxCalls
        /\ calls' = Append(calls, [name |-> name,
                                   res |-> get_resource(erf_result, name, erf_bytes)])
        /\ UNCHANGED <<erf_bytes, erf_pc, erf_st, erf_result, scan_vars, app_vars>>

ErfNext == ErfReadHeader \/ ErfParseHeader \/ ErfParseEntry \/ ErfReturn \/ ErfGetResource

ErfSpec == ErfInit /\ [][ErfNext]_vars

\* the reader run one read at a time returns what from_reader returns
ErfStepwiseAgrees == erf_pc = "done" => erf_result = from_reader(erf_bytes)

(***************************************************************************)
(* Claims about the archive reader.                                        *)
(***************************************************************************)
\* the header bytes that decode to "ERF ", "V2.0", "V2.2"
MagicFieldIsERF == SubSeq(erf_bytes, 1, 8) = <<69, 0, 82, 0, 70, 0, 32, 0>>
VersionFieldIsSupported ==
    SubSeq(erf_bytes, 9, 16) \in {<<86, 0, 50, 0, 46, 0, 48, 0>>, <<86, 0, 50, 0, 46, 0, 50, 0>>}
FoundMagic == decode_utf16le(SubSeq(erf_bytes, 1, 8)).val
FoundVersion == decode_utf16le(SubSeq(erf_bytes, 9, 16)).val

\* C9: once the 16-byte header is read, a magic other than "ERF " gives the
\* header-mismatch error with expected "ERF " and the found magic whatever the
\* version field holds; magic "ERF " with a version other than "V2.0"/"V2.2"
\* gives the unsupported-version error with the found version; the TOC is
\* parsed only when both are as required.
C9_HeaderValidation ==
    (erf_pc # "from_reader" /\ Len(erf_bytes) >= HeaderSize) =>
        /\ ~MagicFieldIsERF =>
              /\ erf_pc = "done"
              /\ erf_result = [tag |-> "Err",
                               err |-> [kind |-> "InvalidHeader", expected |-> STR_ERF,
                                        found |-> FoundMagic]]
              /\ erf_st.toc = <<>>
        /\ (MagicFieldIsERF /\ ~VersionFieldIsSupported) =>
              /\ erf_pc = "done"
              /\ erf_result = [tag |-> "Err",
                               err |-> [kind |-> "UnsupportedVersion",
                                        found |-> FoundVersion]]
              /\ erf_st.toc = <<>>
        /\ (MagicFieldIsERF /\ VersionFieldIsSupported) =>
              /\ erf_st.version \in {"V20", "V22"}
              /\ erf_pc \in {"parse", "toc"}
                    \/ /\ erf_pc = "done"
                       /\ erf_result.tag = "Err" =>
                             erf_result.err.kind \notin {"InvalidHeader", "UnsupportedVersion"}

\* a header whose magic and version are both wrong was rejected for its magic
C9_Witness ==
    /\ erf_pc = "done"
    /\ ~MagicFieldIsERF
    /\ ~VersionFieldIsSupported
    /\ FoundMagic = <<69, 82, 70>>
    /\ erf_result.tag = "Err"
    /\ erf_result.err.kind = "InvalidHeader"

\* the width of a TOC record of the container, from its version field
RecordSize ==
    IF SubSeq(erf_bytes, 9, 16) = <<86, 0, 50, 0, 46, 0, 50, 0>> THEN 76 ELSE 72
\* the name field of the j-th TOC record of the container (j from 1)
NameFieldOf(j) ==
    SubSeq(erf_bytes, 32 + (j - 1) * RecordSize + 1, 32 + (j - 1) * RecordSize + 64)
\* the indices (from 0) of the TOC entries whose lower-cased name is k
IndicesOf(toc, k) == {j - 1 : j \in {x \in 1..Len(toc) : to_lowercase(toc[x].name) = k}}
SetMax(S) == CHOOSE x \in S : \A y \in S : y <= x

\* C10: a parsed archive's toc holds one entry per declared record, in file
\* order; the keys of by_name are exactly the lower-cased entry names; each key
\* maps to the index of the last entry with that lower-cased name.
C10_LookupTable ==
    erf_result.tag = "Ok" =>
        LET toc == erf_result.toc
            by_name == erf_result.by_name
        IN  /\ Len(toc) = read_u32(SubSeq(erf_bytes, 17, 20))
            /\ \A j \in 1..Len(toc) :
                  toc[j].name = decode_utf16le(NameFieldOf(j)).val
            /\ DOMAIN by_name = {to_lowercase(toc[j].name) : j \in 1..Len(toc)}
            /\ \A k \in DOMAIN by_name :
                  by_name[k] = SetMax(IndicesOf(toc, k))

\* an archive whose two entries differ only in letter case
C10_Witness ==
    /\ erf_result.tag = "Ok"
    /\ Len(erf_result.toc) = 2
    /\ erf_result.toc[1].name = <<97>>
    /\ erf_result.toc[2].name = <<65>>
    /\ erf_result.by_name = (<<97>> :> 1)

\* the sets of code points that are one letter in its letter cases
CaseClasses ==
    {{65 + i, 97 + i} : i \in 0..25} \cup {{192 + i, 224 + i} : i \in (0..30) \ {23}}

SameLetter(c, d) == c = d \/ \E cls \in CaseClasses : c \in cls /\ d \in cls

\* two names that differ at most in letter case
CaseEq(m, n) == Len(m) = Len(n) /\ \A i \in 1..Len(m) : SameLetter(m[i], n[i])

\* the indices (from 0) of the TOC entries whose name is n up to letter case
MatchesOf(n) == {j - 1 : j \in {x \in 1..Len(erf_result.toc) : CaseEq(erf_result.toc[x].name, n)}}

NotFound(res) == res.tag = "Err" /\ res.err.kind = "InvalidResourceName"

\* C11: get_resource is case-insensitive: two names that differ only in letter
\* case resolve to the same TOC entry, and the call fails with the not-found
\* error exactly when no TOC entry name equals the name up to letter case.
C11_CaseInsensitiveLookup ==
    /\ \A i \in 1..Len(calls) :
          /\ NotFound(calls[i].res) <=> MatchesOf(calls[i].name) = {}
          /\ NotFound(calls[i].res) => calls[i].res.err.name = calls[i].name
          /\ calls[i].res.tag = "Ok" => calls[i].res.index \in MatchesOf(calls[i].name)
    /\ \A i, j \in 1..Len(calls) :
          CaseEq(calls[i].name, calls[j].name) =>
              /\ NotFound(calls[i].res) <=> NotFound(calls[j].res)
              /\ (calls[i].res.tag = "Ok" /\ calls[j].res.tag = "Ok") =>
                    calls[i].res.index = calls[j].res.index

\* "A" and "a" were asked for and both resolved to the one entry, named "a"
C11_Witness ==
    /\ Len(calls) = 2
    /\ calls[1].name = <<65>>
    /\ calls[2].name = <<97>>
    /\ calls[1].res.tag = "Ok"
    /\ calls[2].res.tag = "Ok"
    /\ calls[1].res.index = calls[2].res.index
    /\ erf_result.toc[calls[1].res.index + 1].name = <<97>>

\* the TOC entry a call resolves to: the last one whose name matches
EntryFor(n) == erf_result.toc[SetMax(MatchesOf(n)) + 1]

\* the bytes of the container from offset (counted from 0) on, length of them
BytesAt(offset, length) == [i \in 1..length |-> erf_bytes[offset + i]]

\* the archive is the one the container parses to, and a call repeated
\* returned what it returned before
ArchiveUntouched ==
    /\ calls # <<>> => erf_result = from_reader(erf_bytes)
    /\ \A i, j \in 1..Len(calls) :
          calls[i].name = calls[j].name => calls[i].res = calls[j].res

\* C12: a successful get_resource returns exactly the entry's length bytes from
\* the entry's offset on; when offset + length exceeds the container size the
\* call fails with an I/O error; the calls leave toc and by_name unchanged and
\* a repeated call returns the same.
C12_ExactRead ==
    /\ \A i \in 1..Len(calls) :
          MatchesOf(calls[i].name) # {} =>
              LET e == EntryFor(calls[i].name)
              IN  IF e.offset + e.length > Len(erf_bytes)
                     THEN calls[i].res = [tag |-> "Err", err |-> [kind |-> "Io"]]
                  ELSE /\ calls[i].res.tag = "Ok"
                       /\ Len(calls[i].res.data) = e.length
                       /\ calls[i].res.data = BytesAt(e.offset, e.length)
    /\ ArchiveUntouched

\* what get_resource does: the I/O error is for an entry of length above zero
\* only; an entry of length zero gives no bytes, wherever its offset lies
C12_ExactReadNonEmpty ==
    /\ \A i \in 1..Len(calls) :
          MatchesOf(calls[i].name) # {} =>
              LET e == EntryFor(calls[i].name)
              IN  IF e.length > 0 /\ e.offset + e.length > Len(erf_bytes)
                     THEN calls[i].res = [tag |-> "Err", err |-> [kind |-> "Io"]]
                  ELSE /\ calls[i].res.tag = "Ok"
                       /\ Len(calls[i].res.data) = e.length
                       /\ calls[i].res.data = BytesAt(e.offset, e.length)
    /\ ArchiveUntouched

\* a call resolved to an entry of length zero whose offset lies beyond the end
\* of the container, and returned no bytes and no error
C12_Witness ==
    \E i \in 1..Len(calls) :
        /\ MatchesOf(calls[i].name) # {}
        /\ EntryFor(calls[i].name).length = 0
        /\ EntryFor(calls[i].name).offset > Len(erf_bytes)
        /\ calls[i].res.tag = "Ok"
        /\ calls[i].res.data = <<>>

\* the declared file count, and whether the j-th TOC record (j from 1) lies
\* within the container and has a name field of zero bytes only
DeclaredCount == read_u32(SubSeq(erf_bytes, 17, 20))
RecordPresent(j) == 32 + j * RecordSize <= Len(erf_bytes)
NameFieldEmpty(j) == \A i \in 1..64 : NameFieldOf(j)[i] = 0
EmptyRecords == {j \in 1..DeclaredCount : RecordPresent(j) /\ NameFieldEmpty(j)}
HeaderAccepted ==
    Len(erf_bytes) >= 32 /\ MagicFieldIsERF /\ VersionFieldIsSupported

\* C13: when some TOC record has an empty name, parsing fails with the
\* invalid-resource-name error carrying the index of the first such record and
\* returns no archive, so no partial TOC; on success every entry name is
\* non-empty and toc has exactly file_count entries.
C13_EmptyNameRejected ==
    (erf_pc = "done" /\ HeaderAccepted) =>
        /\ EmptyRecords # {} =>
              /\ erf_result =
                    [tag |-> "Err",
                     err |-> [kind |-> "InvalidResourceName",
                              index |-> (CHOOSE j \in EmptyRecords :
                                            \A k \in EmptyRecords : j <= k) - 1]]
              /\ DOMAIN erf_result = {"tag", "err"}
        /\ erf_result.tag = "Ok" =>
              /\ \A j \in 1..Len(erf_result.toc) : erf_result.toc[j].name # <<>>
              /\ Len(erf_result.toc) = DeclaredCount

\* the second record of a container had an empty name: the one entry parsed
\* before it is in the locals of parse and not in what was returned
C13_Witness ==
    /\ erf_pc = "done"
    /\ HeaderAccepted
    /\ EmptyRecords = {2}
    /\ Len(erf_st.toc) = 1
    /\ erf_result.tag = "Err"
    /\ erf_result.err.kind = "InvalidResourceName"
    /\ erf_result.err.index = 1

\* the 32-bit field at offset at (counted from 0) of the j-th TOC record
RecordField(j, at) ==
    read_u32(SubSeq(erf_bytes, 32 + (j - 1) * RecordSize + at + 1,
                    32 + (j - 1) * RecordSize + at + 4))

\* C14: every entry of a parsed V2.0 archive has packed_length = length, both
\* the record's field at offset 68; an entry of a V2.2 archive has its length
\* from the record's own field at offset 72, whatever its packed_length is.
C14_PackedAndLength ==
    erf_result.tag = "Ok" =>
        \A j \in 1..Len(erf_result.toc) :
            LET e == erf_result.toc[j]
            IN  /\ e.packed_length = RecordField(j, 68)
                /\ erf_result.version = "V20" => e.length = e.packed_length
                /\ erf_result.version = "V22" => e.length = RecordField(j, 72)

\* a parsed V2.2 archive with an entry whose two lengths differ
C14_Witness ==
    /\ erf_result.tag = "Ok"
    /\ erf_result.version = "V22"
    /\ \E j \in 1..Len(erf_result.toc) :
          erf_result.toc[j].length # erf_result.toc[j].packed_length

(***************************************************************************)
(* Paths (std::path).                                                      *)
(***************************************************************************)
\* Path::file_name: the last component
file_name(path) == path[Len(path)]

\* the index of the last '.' of a name, 0 when it has none
LastDot(name) ==
    LET dots == {i \in 1..Len(name) : name[i] = 46}
    IN  IF dots = {} THEN 0 ELSE CHOOSE i \in dots : \A j \in dots : j <= i

\* Path::extension: what follows the last '.' of the file name; none when the
\* name has no '.' or only a leading one
extension(path) ==
    LET name == file_name(path)
        dot == LastDot(name)
    IN  IF dot <= 1 THEN [some |-> FALSE]
        ELSE [some |-> TRUE, val |-> SubSeq(name, dot + 1, Len(name))]

\* Path::starts_with: a prefix of whole components
starts_with(path, base) == IsPrefix(base, path)

RECURSIVE StrLess(_, _)
\* Ord for OsStr: byte-wise lexicographic (the model's paths are ASCII)
StrLess(a, b) ==
    IF b = <<>> THEN FALSE
    ELSE IF a = <<>> THEN TRUE
    ELSE IF Head(a) < Head(b) THEN TRUE
    ELSE IF Head(b) < Head(a) THEN FALSE
    ELSE StrLess(Tail(a), Tail(b))

RECURSIVE PathLess(_, _)
\* Ord for PathBuf: lexicographic over the components
PathLess(p, q) ==
    IF q = <<>> THEN FALSE
    ELSE IF p = <<>> THEN TRUE
    ELSE IF StrLess(Head(p), Head(q)) THEN TRUE
    ELSE IF StrLess(Head(q), Head(p)) THEN FALSE
    ELSE PathLess(Tail(p), Tail(q))

(***************************************************************************)
(* The scanner (scanner.rs).                                               *)
(***************************************************************************)
IGNORED_FILES == {STR_manifest_xml, STR_credits_txt, STR_readme_txt}

\* should_ignore, had it compared the name as it is
should_ignore_exact(name) == name \in IGNORED_FILES

should_ignore(name) ==
    LET lowercase_name == to_ascii_lowercase(name)
    IN  \E f \in IGNORED_FILES : f = lowercase_name

is_erf_file(path) ==
    LET ext == extension(path)
    IN  ext.some /\ to_ascii_lowercase(ext.val) = to_ascii_lowercase(STR_erf)

\* the root the scan is given, and bioware_dir.join("packages/core/override")
\* "DA"
bioware_dir == <<<<68, 65>>>>
override_dir ==
    bioware_dir \o <<<<112, 97, 99, 107, 97, 103, 101, 115>>, <<99, 111, 114, 101>>,
                     <<111, 118, 101, 114, 114, 105, 100, 101>>>>

\* the branch of the for_each closure a file takes, had the archive test come first
classify_erf_first(path) ==
    IF is_erf_file(path) THEN "erf"
    ELSE IF starts_with(path, override_dir) THEN "loose"
    ELSE "other"

\* the branch of the for_each closure a file takes
classify(path) ==
    IF starts_with(path, override_dir) THEN "loose"
    ELSE IF is_erf_file(path) THEN "erf"
    ELSE "other"

\* conflicts.entry(key).or_default().push(path)
push_path(c, key, path) ==
    MapInsert(c, key, Append(IF key \in DOMAIN c THEN c[key] ELSE <<>>, path))

process_loose_file(path, c) == push_path(c, file_name(path), path)

RECURSIVE push_entries(_, _, _)
\* the loop of process_erf_file over erf.toc
push_entries(toc, path, c) ==
    IF toc = <<>> THEN c
    ELSE push_entries(Tail(toc), path, push_path(c, Head(toc).name, path))


\* ErfFile::open: File::open, then from_reader
ErfFile_open(file) ==
    IF ~file.readable THEN [tag |-> "Err", err |-> [kind |-> "Open"]]
    ELSE from_reader(file.bytes)

\* process_erf_file, had it pushed each TOC entry as soon as it was parsed
process_erf_file_eager(path, file, c) ==
    LET erf == ErfFile_open(file)
    IN  IF erf.tag = "Err"
            THEN [ok |-> FALSE,
                  conflicts |-> IF file.readable
                                   THEN push_entries(from_reader_locals(file.bytes).toc,
                                                     path, c)
                                ELSE c]
        ELSE [ok |-> TRUE, conflicts |-> push_entries(erf.toc, path, c)]

process_erf_file(path, file, c) ==
    LET erf == ErfFile_open(file)
    IN  IF erf.tag = "Err" THEN [ok |-> FALSE, conflicts |-> c]
        ELSE [ok |-> TRUE, conflicts |-> push_entries(erf.toc, path, c)]

\* conflicts.retain(..), had it kept every non-empty list
retain_conflicts_nonempty(c) ==
    [k \in {x \in DOMAIN c : Len(c[x]) > 0 /\ ~should_ignore(x)} |-> c[k]]

\* conflicts.retain(|key, paths| paths.len() > 1 && !should_ignore(key))
retain_conflicts(c) ==
    [k \in {x \in DOMAIN c : Len(c[x]) > 1 /\ ~should_ignore(x)} |-> c[k]]

RECURSIVE insert_sorted(_, _)
\* x put after the elements of the ascending s that are not greater than it
insert_sorted(x, s) ==
    IF s = <<>> THEN <<x>>
    ELSE IF PathLess(x, Head(s)) THEN <<x>> \o s
    ELSE <<Head(s)>> \o insert_sorted(x, Tail(s))

RECURSIVE sort_ascending(_)
sort_ascending(paths) ==
    IF paths = <<>> THEN <<>>
    ELSE insert_sorted(paths[Len(paths)], sort_ascending(SubSeq(paths, 1, Len(paths) - 1)))

\* paths.sort(), had it sorted in descending order
sort_paths_descending(paths) ==
    LET s == sort_ascending(paths) IN [i \in 1..Len(s) |-> s[Len(s) + 1 - i]]

\* paths.sort(), had it been left out
sort_paths_none(paths) == paths

\* paths.sort(): ascending in the order of PathBuf
sort_paths(paths) == sort_ascending(paths)

\* scan_for_conflicts after the walk: retain, then sort every list
finalize(c) ==
    LET kept == retain_conflicts(c)
    IN  [k \in DOMAIN kept |-> sort_paths(kept[k])]

(***************************************************************************)
(* The directory trees the scanner is run on.                              *)
(***************************************************************************)
\* "x.gda"
STR_x_gda == <<120, 46, 103, 100, 97>>
\* "Manifest.XML"
STR_Manifest_XML == <<77, 97, 110, 105, 102, 101, 115, 116, 46, 88, 77, 76>>

\* <root>/packages/core/override/x.gda
P_ovr_x == override_dir \o <<STR_x_gda>>
\* <root>/packages/core/override/sub/x.gda
P_ovr_sub_x == override_dir \o <<<<115, 117, 98>>, STR_x_gda>>
\* <root>/packages/core/override/Manifest.XML
P_ovr_manifest == override_dir \o <<STR_Manifest_XML>>
\* <root>/packages/core/override/c.erf
P_ovr_c_erf == override_dir \o <<<<99, 46, 101, 114, 102>>>>
\* <root>/a.erf
P_a_erf == bioware_dir \o <<<<97, 46, 101, 114, 102>>>>
\* <root>/addins/b.ERF
P_b_ERF == bioware_dir \o <<<<97, 100, 100, 105, 110, 115>>, <<98, 46, 69, 82, 70>>>>
\* <root>/x.gda
P_root_x == bioware_dir \o <<STR_x_gda>>
\* <root>/.erf
P_dot_erf == bioware_dir \o <<<<46, 101, 114, 102>>>>

\* what a file holds, by the name the trees give its content
FileContent(id) ==
    CASE id = "plain" -> [readable |-> TRUE, bytes |-> <<1, 2, 3>>]
      \* a V2.0 archive of x.gda and Manifest.XML
      [] id = "two" ->
            [readable |-> TRUE,
             bytes |-> MkErf(STR_ERF, STR_V20, 2, 2009, 300, 0,
                             EntriesOf(<<STR_x_gda, STR_Manifest_XML>>))]
      \* a V2.2 archive whose TOC lists x.gda twice
      [] id = "dup" ->
            [readable |-> TRUE,
             bytes |-> MkErf(STR_ERF, STR_V22, 2, 2009, 300, 7,
                             EntriesOf(<<STR_x_gda, STR_x_gda>>))]
      \* a V2.0 archive whose second record has an empty name
      [] id = "broken" ->
            [readable |-> TRUE,
             bytes |-> MkErf(STR_ERF, STR_V20, 2, 2009, 300, 0,
                             EntriesOf(<<STR_x_gda, <<>>>>))]
      \* a file with another magic
      [] id = "badmagic" ->
            [readable |-> TRUE,
             bytes |-> MkErf(<<88, 89, 90, 32>>, STR_V20, 1, 2009, 300, 0,
                             EntriesOf(<<STR_x_gda>>))]
      \* a file File::open fails on
      [] id = "unreadable" -> [readable |-> FALSE, bytes |-> <<>>]

Universe ==
    {[path |-> p, content |-> "plain"] :
        p \in {P_ovr_x, P_ovr_sub_x, P_ovr_manifest, P_root_x, P_dot_erf}}
    \cup {[path |-> P_ovr_c_erf, content |-> "two"]}
    \cup {[path |-> P_a_erf, content |-> c] : c \in {"two", "dup", "broken", "badmagic"}}
    \cup {[path |-> P_b_ERF, content |-> c] : c \in {"two", "unreadable"}}

\* a tree holds at most MaxFiles files, no two at one path
Trees ==
    {t \in SUBSET Universe :
        /\ Cardinality(t) <= MaxFiles
        /\ \A f, g \in t : f.path = g.path => f = g}

(***************************************************************************)
(* Spec: one call of scan_for_conflicts.  WalkDir yields the root first     *)
(* and then the files below it; the model lets it yield the files in any    *)
(* order.                                                                  *)
(***************************************************************************)
ErfIdle ==
    /\ erf_bytes = <<>>
    /\ erf_pc = "idle"
    /\ erf_st = InitLocals
    /\ erf_result = [tag |-> "None"]
    /\ calls = <<>>

Init ==
    /\ \/ root_state = "dir" /\ tree \in Trees
       \/ root_state = "missing" /\ tree = {}
    /\ pending = tree
    /\ root_pending = TRUE
    /\ conflicts = EmptyMap
    /\ warnings = {}
    /\ walked = <<>>
    /\ scan_pc = "walk"
    /\ result = [tag |-> "None"]
    /\ ErfIdle
    /\ AppIdle

\* the walk yields the root directory: not a regular file, filtered out
WalkRootDir ==
    /\ scan_pc = "walk"
    /\ root_pending
    /\ root_state = "dir"
    /\ root_pending' = FALSE
    /\ UNCHANGED <<root_state, tree, pending, conflicts, warnings, walked, scan_pc,
                   result, erf_vars, app_vars>>

\* the walk yields the error of opening the root: dropped by filter_map(Result::ok)
WalkRootError ==
    /\ scan_pc = "walk"
    /\ root_pending
    /\ root_state = "missing"
    /\ root_pending' = FALSE
    /\ UNCHANGED <<root_state, tree, pending, conflicts, warnings, walked, scan_pc,
                   result, erf_vars, app_vars>>

VisitLoose ==
    \E f \in pending :
        /\ scan_pc = "walk"
        /\ ~root_pending
        /\ classify(f.path) = "loose"
        /\ conflicts' = process_loose_file(f.path, conflicts)
        /\ pending' = pending \ {f}
        /\ walked' = Append(walked, f.path)
        /\ UNCHANGED <<root_state, tree, root_pending, warnings, scan_pc, result,
                       erf_vars, app_vars>>

VisitErf ==
    \E f \in pending :
        /\ scan_pc = "walk"
        /\ ~root_pending
        /\ classify(f.path) = "erf"
        /\ LET r == process_erf_file(f.path, FileContent(f.content), conflicts)
           IN  /\ conflicts' = r.conflicts
               /\ warnings' = IF r.ok THEN warnings ELSE warnings \cup {f.path}
        /\ pending' = pending \ {f}
        /\ walked' = Append(walked, f.path)
        /\ UNCHANGED <<root_state, tree, root_pending, scan_pc, result, erf_vars, app_vars>>

VisitOther ==
    \E f \in pending :
        /\ scan_pc = "walk"
        /\ ~root_pending
        /\ classify(f.path) = "other"
        /\ pending' = pending \ {f}
        /\ walked' = Append(walked, f.path)
        /\ UNCHANGED <<root_state, tree, root_pending, conflicts, warnings, scan_pc,
                       result, erf_vars, app_vars>>

\* the walk is over: retain, sort, Ok(conflicts)
Finish ==
    /\ scan_pc = "walk"
    /\ ~root_pending
    /\ pending = {}
    /\ conflicts' = finalize(conflicts)
    /\ result' = [tag |-> "Ok", map |-> finalize(conflicts)]
    /\ scan_pc' = "done"
    /\ UNCHANGED <<root_state, tree, pending, root_pending, warnings, walked, erf_vars, app_vars>>

Next == WalkRootDir \/ WalkRootError \/ VisitLoose \/ VisitErf \/ VisitOther \/ Finish

Spec == Init /\ [][Next]_vars

(***************************************************************************)
(* What a tree provides, stated from the tree alone: which files provide   *)
(* which resource name how often, whatever the order of the walk.          *)
(***************************************************************************)
UnderOverride(path) ==
    /\ Len(path) > Len(override_dir)
    /\ \A i \in 1..Len(override_dir) : path[i] = override_dir[i]

\* the file name ends in '.' and erf in any letter case, with a stem before it
HasErfExtension(path) ==
    LET name == path[Len(path)]
    IN  /\ Len(name) >= 5
        /\ name[Len(name) - 3] = 46
        /\ name[Len(name) - 2] \in {101, 69}
        /\ name[Len(name) - 1] \in {114, 82}
        /\ name[Len(name)] \in {102, 70}

Opens(f) == ErfFile_open(FileContent(f.content)).tag = "Ok"

TocOf(f) == ErfFile_open(FileContent(f.content)).toc

\* an archive of the tree that the reader rejects
IsFailingArchive(f) ==
    ~UnderOverride(f.path) /\ HasErfExtension(f.path) /\ ~Opens(f)

\* how many times file f provides the resource name k
Contrib(f, k) ==
    IF UnderOverride(f.path) THEN (IF f.path[Len(f.path)] = k THEN 1 ELSE 0)
    ELSE IF HasErfExtension(f.path) /\ Opens(f)
        THEN Cardinality({j \in 1..Len(TocOf(f)) : TocOf(f)[j].name = k})
    ELSE 0

ProvidedNames(files) ==
    {f.path[Len(f.path)] : f \in {g \in files : UnderOverride(g.path)}}
    \cup UNION {{TocOf(f)[j].name : j \in 1..Len(TocOf(f))} :
                  f \in {g \in files : ~UnderOverride(g.path)
                                       /\ HasErfExtension(g.path) /\ Opens(g)}}

Providers(files, k) == {f \in files : Contrib(f, k) > 0}

RECURSIVE ExpectedPaths(_, _)
\* the paths of the providers S of k, ascending, each as often as it provides k
ExpectedPaths(S, k) ==
    IF S = {} THEN <<>>
    ELSE LET least == CHOOSE f \in S : \A g \in S : ~PathLess(g.path, f.path)
         IN  [i \in 1..Contrib(least, k) |-> least.path]
             \o ExpectedPaths(S \ {least}, k)

ExpectedMap(files) ==
    [k \in {x \in ProvidedNames(files) :
              /\ Len(ExpectedPaths(Providers(files, x), x)) >= 2
              /\ to_lowercase(x) \notin IGNORED_FILES}
       |-> ExpectedPaths(Providers(files, k), k)]

\* the walk yielded q before p although p sorts before q
WalkedOutOfOrder(p, q) ==
    \E i, j \in 1..Len(walked) : i < j /\ walked[i] = q /\ walked[j] = p /\ PathLess(p, q)

(***************************************************************************)
(* Claims about the scanner.                                               *)
(***************************************************************************)
\* C1: the map scan_for_conflicts returns has no key with fewer than two paths.
C1_AtLeastTwoPaths ==
    scan_pc = "done" =>
        \A k \in DOMAIN result.map : Len(result.map[k]) >= 2

\* a conflict was returned while a name only one file provides was dropped
C1_Witness ==
    /\ scan_pc = "done"
    /\ DOMAIN result.map # {}
    /\ \E k \in ProvidedNames(tree) :
          /\ Cardinality(Providers(tree, k)) = 1
          /\ to_lowercase(k) \notin IGNORED_FILES
          /\ k \notin DOMAIN result.map

\* C2: every key of the returned map is provided by two or more sources: its
\* path list names at least two different files.
C2_TwoDifferentFiles ==
    scan_pc = "done" =>
        \A k \in DOMAIN result.map : Cardinality(Range(result.map[k])) >= 2

\* C3: the returned map has no key whose lower-cased form is an excluded name,
\* whatever the key's letter case and however many sources provide it.
C3_ExcludedNamesAbsent ==
    scan_pc = "done" =>
        \A k \in DOMAIN result.map :
            /\ to_lowercase(k) \notin {STR_manifest_xml, STR_credits_txt, STR_readme_txt}
            /\ to_ascii_lowercase(k) \notin {STR_manifest_xml, STR_credits_txt, STR_readme_txt}

\* Manifest.XML, provided by two files, is not in the returned map
C3_Witness ==
    /\ scan_pc = "done"
    /\ Cardinality(Providers(tree, STR_Manifest_XML)) >= 2
    /\ STR_Manifest_XML \notin DOMAIN result.map

\* C4: every path list of the returned map is sorted ascending.
C4_PathsSorted ==
    scan_pc = "done" =>
        \A k \in DOMAIN result.map :
            \A i \in 1..(Len(result.map[k]) - 1) :
                ~PathLess(result.map[k][i + 1], result.map[k][i])

\* a returned list holds two paths the walk yielded in descending order
C4_Witness ==
    /\ scan_pc = "done"
    /\ \E k \in DOMAIN result.map :
          \E p, q \in Range(result.map[k]) : WalkedOutOfOrder(p, q)

\* C5: for a fixed tree the scan returns the same map, the one the tree alone
\* determines, for every order in which the walk yields the files.
C5_Deterministic ==
    scan_pc = "done" => result = [tag |-> "Ok", map |-> ExpectedMap(tree)]

\* a scan of three files, yielded in strictly descending order, returned a conflict
C5_Witness ==
    /\ scan_pc = "done"
    /\ Len(walked) = 3
    /\ PathLess(walked[3], walked[2])
    /\ PathLess(walked[2], walked[1])
    /\ \E k \in DOMAIN result.map : Cardinality(Range(result.map[k])) = 3

\* C6: when the root directory does not exist the scan fails with an error
\* and returns no map.
C6_MissingRootFails ==
    (scan_pc = "done" /\ root_state = "missing") => result.tag = "Err"

\* C7: a failing archive does not abort the scan; its path is under no key at
\* any time, also not for the records read before the failure; the returned
\* map is the one of the tree without the failing archives.
C7_FailureIsolation ==
    /\ \A f \in tree :
          IsFailingArchive(f) =>
              \A k \in DOMAIN conflicts : f.path \notin Range(conflicts[k])
    /\ scan_pc = "done" =>
          /\ result.tag = "Ok"
          /\ result.map = ExpectedMap({f \in tree : ~IsFailingArchive(f)})
          /\ \A f \in tree : IsFailingArchive(f) => f.path \in warnings

\* an archive that failed after one record was read, beside a returned conflict
C7_Witness ==
    /\ scan_pc = "done"
    /\ \E f \in tree :
          /\ IsFailingArchive(f)
          /\ FileContent(f.content).readable
          /\ from_reader_locals(FileContent(f.content).bytes).toc # <<>>
          /\ f.path \in warnings
    /\ DOMAIN result.map # {}

\* C8: a file under the override directory with the extension erf is opened as
\* an archive: it is under the names of its TOC, not under its own file name.
C8_ArchivePrecedence ==
    scan_pc = "walk" =>
        \A f \in tree \ pending :
            (UnderOverride(f.path) /\ HasErfExtension(f.path) /\ Opens(f)) =>
                /\ \A j \in 1..Len(TocOf(f)) :
                      /\ TocOf(f)[j].name \in DOMAIN conflicts
                      /\ f.path \in Range(conflicts[TocOf(f)[j].name])
                /\ f.path[Len(f.path)] \in DOMAIN conflicts =>
                      f.path \notin Range(conflicts[f.path[Len(f.path)]])

\* C8, amended: a file under the override directory with the extension erf is
\* a loose override file: it is never opened, it is under its own file name
\* and under no other key.
C8_OverridePrecedence ==
    scan_pc = "walk" =>
        \A f \in tree \ pending :
            (UnderOverride(f.path) /\ HasErfExtension(f.path)) =>
                /\ f.path[Len(f.path)] \in DOMAIN conflicts
                /\ \A k \in DOMAIN conflicts :
                      f.path \in Range(conflicts[k]) <=> k = f.path[Len(f.path)]
                /\ f.path \notin warnings

\* the walk has yielded <root>/packages/core/override/c.erf, a valid archive
C8_Witness ==
    /\ scan_pc = "walk"
    /\ \E f \in tree \ pending :
          /\ f.path = P_ovr_c_erf
          /\ Opens(f)
          /\ TocOf(f) # <<>>
    /\ P_ovr_c_erf \in Range(conflicts[<<99, 46, 101, 114, 102>>])

(***************************************************************************)
(* The application (app.rs): the egui update loop, the scan thread that    *)
(* start_scan spawns, and the channel between them.  A frame is one call   *)
(* of update with at most one click in it.                                 *)
(***************************************************************************)
MapRemove(m, k) == [x \in (DOMAIN m) \ {k} |-> m[x]]

\* Vec::retain(|p| p != &path)
retain_other(paths, path) == SelectSeq(paths, LAMBDA p : p # path)

visit(f, c) ==
    CASE classify(f.path) = "loose" -> process_loose_file(f.path, c)
      [] classify(f.path) = "erf" -> process_erf_file(f.path, FileContent(f.content), c).conflicts
      [] OTHER -> c

RECURSIVE walk_files(_, _)
\* the for_each of scan_for_conflicts over the files of a tree, taken in the
\* order of their paths
walk_files(files, c) ==
    IF files = {} THEN c
    ELSE LET f == CHOOSE x \in files : \A y \in files : ~PathLess(y.path, x.path)
         IN  walk_files(files \ {f}, visit(f, c))

\* scan_for_conflicts on an existing root that holds files
scan_for_conflicts(files) == [tag |-> "Ok", map |-> finalize(walk_files(files, EmptyMap))]

\* Receiver::try_recv on the values sent and not received yet
try_recv(queue) ==
    IF queue = <<>> THEN [ok |-> FALSE]
    ELSE [ok |-> TRUE, val |-> Head(queue)]

\* the scan button is add_enabled(self.scan_thread.is_none(), ..), had it been
\* enabled always
scan_enabled_always(a) == TRUE

\* the scan button is add_enabled(self.scan_thread.is_none(), ..)
scan_enabled(a) == a.scan_thread = 0

\* App::start_scan, spawning the thread and the channel numbered id
start_scan(a, id) ==
    [a EXCEPT !.has_scanned = TRUE,
              !.receiver = id,
              !.scan_thread = id,
              !.status = [text |-> "Scanning..."],
              !.conflicts = EmptyMap]

\* the Ok arm of process_scan_results
install(a, map) ==
    LET kept == {k \in DOMAIN a.ignored : k \in DOMAIN map /\ map[k] = a.ignored[k]}
    IN  [a EXCEPT !.conflicts = map,
                  !.ignored = [k \in kept |-> a.ignored[k]],
                  !.expanded_conflicts = a.expanded_conflicts \cap DOMAIN map,
                  !.status = [text |-> "Found", count |-> Cardinality(DOMAIN map)]]

\* App::process_scan_results, had it left receiver and scan_thread as they are
process_scan_results_keep(a, chans) ==
    IF a.receiver = 0 THEN [app |-> a, received |-> 0, installed |-> FALSE]
    ELSE LET r == try_recv(chans[a.receiver])
         IN  IF ~r.ok THEN [app |-> a, received |-> 0, installed |-> FALSE]
             ELSE LET b == IF r.val.tag = "Ok" THEN install(a, r.val.map)
                           ELSE [a EXCEPT !.status = [text |-> "Scan failed!"],
                                          !.error = TRUE]
                  IN  [app |-> b, received |-> 0, installed |-> r.val.tag = "Ok"]

\* App::process_scan_results with the channels chans; received is the number
\* of the channel a value was taken from and whose receiver is dropped, or 0
process_scan_results(a, chans) ==
    IF a.receiver = 0 THEN [app |-> a, received |-> 0, installed |-> FALSE]
    ELSE LET r == try_recv(chans[a.receiver])
         IN  IF ~r.ok THEN [app |-> a, received |-> 0, installed |-> FALSE]
             ELSE LET b == IF r.val.tag = "Ok" THEN install(a, r.val.map)
                           ELSE [a EXCEPT !.status = [text |-> "Scan failed!"],
                                          !.error = TRUE]
                  IN  [app |-> [b EXCEPT !.receiver = 0, !.scan_thread = 0],
                       received |-> a.receiver,
                       installed |-> r.val.tag = "Ok"]

\* the keys results_panel renders: none while a scan runs or before the first
\* scan, else the conflicts that are not ignored with these very paths
filtered_conflicts(a) ==
    IF a.scan_thread # 0 \/ ~a.has_scanned THEN {}
    ELSE {k \in DOMAIN a.conflicts : ~(k \in DOMAIN a.ignored /\ a.ignored[k] = a.conflicts[k])}

\* the clicks the panels offer in a frame
Clicks(a) ==
    {[kind |-> "none"], [kind |-> "expand_all"], [kind |-> "collapse_all"]}
    \cup {[kind |-> "scan"] : x \in {y \in {1} : scan_enabled(a)}}
    \cup {[kind |-> "close"] : x \in {y \in {1} : a.error}}
    \cup {[kind |-> "header", key |-> k] : k \in filtered_conflicts(a)}
    \cup {[kind |-> "ignore", key |-> k] : k \in filtered_conflicts(a) \cap a.expanded_conflicts}
    \cup {[kind |-> "unignore", key |-> k] : k \in DOMAIN a.ignored}
    \cup UNION {{[kind |-> "delete", key |-> k, path |-> q] :
                    q \in {x \in Range(a.conflicts[k]) : ~is_erf_file(x)}} :
                  k \in filtered_conflicts(a) \cap a.expanded_conflicts}

\* what main_ui does with the click of a frame; id numbers the scan that a
\* click on the scan button starts
main_ui(a, click, id) ==
    CASE click.kind = "scan" -> start_scan(a, id)
      [] click.kind = "expand_all" -> [a EXCEPT !.expanded_conflicts = DOMAIN a.conflicts]
      [] click.kind = "collapse_all" -> [a EXCEPT !.expanded_conflicts = {}]
      [] click.kind = "header" ->
            [a EXCEPT !.expanded_conflicts =
                IF click.key \in a.expanded_conflicts
                    THEN a.expanded_conflicts \ {click.key}
                ELSE a.expanded_conflicts \cup {click.key}]
      [] click.kind = "ignore" ->
            [a EXCEPT !.pending_commands =
                Append(a.pending_commands,
                       [cmd |-> "IgnoreConflict", key |-> click.key,
                        paths |-> a.conflicts[click.key]])]
      [] click.kind = "unignore" ->
            [a EXCEPT !.pending_commands =
                Append(a.pending_commands, [cmd |-> "UnignoreConflict", key |-> click.key])]
      [] click.kind = "delete" ->
            [a EXCEPT !.pending_commands =
                Append(a.pending_commands,
                       [cmd |-> "DeleteConflictFile", key |-> click.key,
                        path |-> click.path])]
      [] OTHER -> a

\* utils::delete: the file at path leaves the tree, or the system refuses
delete(files, path, allowed) ==
    IF allowed /\ \E f \in files : f.path = path
        THEN [ok |-> TRUE, files |-> {f \in files : f.path # path}]
    ELSE [ok |-> FALSE, files |-> files]

\* the DeleteConflictFile arm of handle_commands after a delete that succeeded
forget_path(c, key, path) ==
    IF key \notin DOMAIN c THEN c
    ELSE LET paths == retain_other(c[key], path)
         IN  IF paths = <<>> THEN MapRemove(c, key) ELSE MapInsert(c, key, paths)

RECURSIVE run_commands(_, _, _, _)
\* the loop of handle_commands; os tells what the system lets delete and
\* config.save do
run_commands(commands, a, files, os) ==
    IF commands = <<>> THEN [ok |-> TRUE, app |-> a, files |-> files]
    ELSE LET c == Head(commands)
         IN  CASE c.cmd = "IgnoreConflict" ->
                    run_commands(Tail(commands),
                                 [a EXCEPT !.ignored = MapInsert(a.ignored, c.key, c.paths)],
                                 files, os)
               [] c.cmd = "UnignoreConflict" ->
                    run_commands(Tail(commands),
                                 [a EXCEPT !.ignored = MapRemove(a.ignored, c.key)],
                                 files, os)
               [] c.cmd = "DeleteConflictFile" ->
                    LET d == delete(files, c.path, os.delete)
                    IN  IF ~d.ok THEN [ok |-> FALSE, app |-> a, files |-> files]
                        ELSE run_commands(Tail(commands),
                                          [a EXCEPT !.conflicts =
                                              forget_path(a.conflicts, c.key, c.path)],
                                          d.files, os)

\* App::handle_commands
handle_commands(a, files, os) ==
    LET r == run_commands(a.pending_commands, [a EXCEPT !.pending_commands = <<>>],
                          files, os)
    IN  IF r.ok /\ ~os.save THEN [r EXCEPT !.ok = FALSE] ELSE r

\* show_error_dialog: Close clears the error
show_error_dialog(a, click) ==
    IF a.error /\ click.kind = "close" THEN [a EXCEPT !.error = FALSE] ELSE a

\* what the system may do in a frame with this click
OsOutcomes(click) ==
    {[delete |-> d, save |-> sv] :
        d \in IF click.kind = "delete" THEN BOOLEAN ELSE {TRUE}, sv \in BOOLEAN}

\* eframe::App::update with one click and the outcomes os
update(click, os) ==
    LET r == process_scan_results(app, channels)
        ui == main_ui(r.app, click, started + 1)
        h == handle_commands(ui, tree, os)
        after == IF h.ok THEN h.app ELSE [h.app EXCEPT !.error = TRUE]
        scans == click.kind = "scan"
        open == (DOMAIN channels) \ {r.received, r.app.receiver}
    IN  /\ click \in Clicks(r.app)
        /\ scans => started < MaxScans
        /\ app' = show_error_dialog(after, click)
        /\ tree' = h.files
        /\ channels' =
              [i \in (IF scans THEN open \cup {started + 1}
                      ELSE (DOMAIN channels) \ {r.received})
                 |-> IF i \in DOMAIN channels THEN channels[i] ELSE <<>>]
        /\ workers' = IF scans THEN MapInsert(workers, started + 1, [pc |-> "scan"])
                      ELSE workers
        /\ started' = IF scans THEN started + 1 ELSE started
        /\ installed' = IF scans THEN 0
                        ELSE IF r.installed THEN app.receiver
                        ELSE installed
        /\ UNCHANGED <<root_state, pending, root_pending, conflicts, warnings, walked,
                       scan_pc, result, erf_vars>>

\* the clicks of one kind that the panels offer in the coming frame
Offered(kind) == {c \in Clicks(process_scan_results(app, channels).app) : c.kind = kind}

Frame == \E click \in Offered("none") : \E os \in OsOutcomes(click) : update(click, os)
ClickScan == \E click \in Offered("scan") : \E os \in OsOutcomes(click) : update(click, os)
ClickExpandAll ==
    \E click \in Offered("expand_all") : \E os \in OsOutcomes(click) : update(click, os)
ClickCollapseAll ==
    \E click \in Offered("collapse_all") : \E os \in OsOutcomes(click) : update(click, os)
ClickClose == \E click \in Offered("close") : \E os \in OsOutcomes(click) : update(click, os)
ClickHeader == \E click \in Offered("header") : \E os \in OsOutcomes(click) : update(click, os)
ClickIgnore == \E click \in Offered("ignore") : \E os \in OsOutcomes(click) : update(click, os)
ClickUnignore ==
    \E click \in Offered("unignore") : \E os \in OsOutcomes(click) : update(click, os)
ClickDelete == \E click \in Offered("delete") : \E os \in OsOutcomes(click) : update(click, os)

\* the files the application finds below the root
AppFiles ==
    {[path |-> p, content |-> "plain"] : p \in {P_ovr_x, P_ovr_sub_x}}
    \cup {[path |-> P_a_erf, content |-> "two"], [path |-> P_b_ERF, content |-> "two"]}

\* the trees the application is started on
AppTrees == {t \in SUBSET AppFiles : Cardinality(t) <= MaxFiles}

RECURSIVE ScanTable(_)
\* scan_for_conflicts on each of the trees, as a table
ScanTable(trees) ==
    IF trees = {} THEN <<>>
    ELSE LET t == CHOOSE x \in trees : TRUE
         IN  (t :> scan_for_conflicts(t)) @@ ScanTable(trees \ {t})

\* what a scan of each tree of these files returns, computed once
ScanResult == ScanTable(SUBSET AppFiles)

\* the closure of start_scan, first half: let result = scan_for_conflicts(..)
WorkerScan ==
    \E id \in DOMAIN workers :
        /\ workers[id].pc = "scan"
        /\ workers' = [workers EXCEPT ![id] = [pc |-> "send", result |-> ScanResult[tree]]]
        /\ UNCHANGED <<app, channels, started, installed, scan_vars, erf_vars>>

\* the closure of start_scan, second half: let _ = tx.send(result), which
\* fails when the receiver was dropped, and the thread ends
WorkerSend ==
    \E id \in DOMAIN workers :
        /\ workers[id].pc = "send"
        /\ channels' = IF id \in DOMAIN channels
                          THEN [channels EXCEPT ![id] = Append(@, workers[id].result)]
                       ELSE channels
        /\ workers' = MapRemove(workers, id)
        /\ UNCHANGED <<app, started, installed, scan_vars, erf_vars>>

AppInit ==
    /\ AppIdle
    /\ ErfIdle
    /\ root_state = "dir"
    /\ tree \in AppTrees
    /\ pending = {}
    /\ root_pending = FALSE
    /\ conflicts = EmptyMap
    /\ warnings = {}
    /\ walked = <<>>
    /\ scan_pc = "idle"
    /\ result = [tag |-> "None"]

Update ==
    \/ Frame
    \/ ClickScan
    \/ ClickExpandAll
    \/ ClickCollapseAll
    \/ ClickClose
    \/ ClickHeader
    \/ ClickIgnore
    \/ ClickUnignore
    \/ ClickDelete

AppNext == Update \/ WorkerScan \/ WorkerSend

AppSpec == AppInit /\ [][AppNext]_vars

\* the scan thread is scheduled fairly, and frames keep coming while a frame
\* has something to do
AppFairSpec ==
    AppSpec /\ WF_vars(WorkerScan) /\ WF_vars(WorkerSend) /\ WF_vars(Update)

(***************************************************************************)
(* Claims about the application.                                           *)
(***************************************************************************)
\* C15: the last scan started wins: at most one scan thread is in flight at
\* any time, a thread in flight is that of the scan started last, and the map
\* process_scan_results installed is the result of the scan started last.
C15_LastScanWins ==
    /\ Cardinality(DOMAIN workers) <= 1
    /\ DOMAIN workers \subseteq {started}
    /\ DOMAIN workers # {} => app.scan_thread = started
    /\ installed # 0 => installed = started

\* the second scan was started after the first had ended, and its map is the
\* one installed
C15_Witness ==
    /\ started = 2
    /\ installed = 2
    /\ workers = EmptyMap
    /\ app.conflicts # EmptyMap

Scanning == app.status.text = "Scanning..."

ScanEnded ==
    /\ app.status.text \in {"Found", "Scan failed!"}
    /\ app.receiver = 0
    /\ app.scan_thread = 0

C17_AtLeastTwoPaths ==
    \A k \in DOMAIN app.conflicts : Len(app.conflicts[k]) >= 2

\* a file of a conflict of two was deleted: the key is still there, with the
\* one path left
C17_Witness ==
    /\ STR_x_gda \in DOMAIN app.conflicts
    /\ app.conflicts[STR_x_gda] = <<P_ovr_sub_x>>
    /\ \A f \in tree : f.path # P_ovr_x

====
